---- MODULE Spec2Model ----
(***************************************************************************)
(* Component validation of pandera's pandas backend: ColumnBackend,        *)
(* IndexBackend and MultiIndexBackend (backends/pandas/components.py) and  *)
(* the Column / Index / MultiIndex specifications                          *)
(* (api/pandas/components.py).                                             *)
(*                                                                         *)
(* Data representation.  A scalar label, level name or key is a record     *)
(* [t, s, n]: a string (s is its text as a sequence of characters), an     *)
(* integer n, or None.  A column label is the sequence of its level        *)
(* values.  A cell is [t, s]: an int or a str whose text is s.  A field    *)
(* (one column's or one index level's values) is a sequence of cells.      *)
(***************************************************************************)
EXTENDS Integers, Sequences, FiniteSets, TLC

VARIABLES
    comp,      \* which component the caller validates: "column", "index", "multiindex", "regex"
    schema,    \* the caller-supplied spec object
    table,     \* the caller's table object
    last,      \* record of the last validate call (arguments, outcome, history)
    rx,        \* input and result of a direct get_regex_columns call
    ctor       \* arguments and outcome of a MultiIndex construction, and reads of coerce

vars == <<comp, schema, table, last, rx, ctor>>

(***************************************************************************)
(* Bounds of the model.                                                    *)
(***************************************************************************)
MaxCols == 2        \* columns of a table
NRows == 1          \* rows of a table
MaxRegexCols == 3   \* column labels handed to a direct get_regex_columns call
MaxInitLevels == 2  \* Index objects handed to MultiIndex.__init__
MaxIndexLevels == 3 \* levels of an index whose level names collide

(***************************************************************************)
(* Scalars: labels, names, keys.                                           *)
(***************************************************************************)
NoneKey == [t |-> "none", s |-> <<>>, n |-> 0]
StrKey(chars) == [t |-> "str", s |-> chars, n |-> 0]
IntKey(i) == [t |-> "int", s |-> <<>>, n |-> i]

DigitChars == <<"0", "1", "2", "3", "4", "5", "6", "7", "8", "9">>
IsDigit(ch) == \E i \in DOMAIN DigitChars : DigitChars[i] = ch

\* str(x) of a scalar, as Index.astype(str) computes it (integers 0..9)
AsStr(lv) ==
    IF lv.t = "str" THEN lv.s
    ELSE IF lv.t = "int" THEN <<DigitChars[lv.n + 1]>>
    ELSE <<"N", "o", "n", "e">>

AsTypeStr(lv) == StrKey(AsStr(lv))

\* schema.name of a Column: None, a string, or a tuple of strings
NameNone == [t |-> "none", parts |-> <<>>]
Scalar(lv) == [t |-> "scalar", parts |-> <<lv>>]
Tuple(lvs) == [t |-> "tuple", parts |-> lvs]

(***************************************************************************)
(* Regular expressions, as re.match applies them: the pattern is matched   *)
(* at the start of the text and need not consume all of it.  The pattern   *)
(* is a sequence of tokens: "^", "$", "\\d" (a digit), "." (any character),*)
(* a literal character, each character token optionally followed by "+".   *)
(***************************************************************************)
CharMatch(tok, ch) ==
    IF tok = "\\d" THEN IsDigit(ch)
    ELSE IF tok = "." THEN TRUE
    ELSE tok = ch

RECURSIVE ReMatch(_, _)
ReMatch(pat, text) ==
    IF pat = <<>> THEN TRUE
    ELSE IF Head(pat) = "^" THEN ReMatch(Tail(pat), text)
    ELSE IF Head(pat) = "$" THEN text = <<>> /\ ReMatch(Tail(pat), text)
    ELSE
        LET plus == Len(pat) >= 2 /\ pat[2] = "+"
            rest == IF plus THEN SubSeq(pat, 3, Len(pat)) ELSE Tail(pat)
        IN  /\ text # <<>>
            /\ CharMatch(Head(pat), Head(text))
            /\ \/ ReMatch(rest, Tail(text))
               \/ plus /\ ReMatch(pat, Tail(text))

\* Series.str.match on one element: nan when the element is not a string
StrMatch(lv, pat) ==
    IF lv.t # "str" THEN "nan"
    ELSE IF ReMatch(pat, lv.s) THEN "True" ELSE "False"

\* .fillna(False) on one element of the match result
FillNaFalse(m) == m = "True"

(***************************************************************************)
(* Failure objects.  A SchemaError carries its schema context, the check   *)
(* it reports, the check's index, and the column its failure cases were    *)
(* annotated with.  The schema context names the class of the spec, its    *)
(* name and whether it is the caller's object or a working copy.           *)
(***************************************************************************)
Ctx(cls, name, obj) == [cls |-> cls, name |-> name, obj |-> obj]
NoCtx == Ctx("none", NameNone, "none")

SchemaError(ctx, message, check, check_index, target) ==
    [schema |-> ctx, message |-> message, check |-> check,
     check_index |-> check_index, target |-> target, column |-> NameNone,
     reason_code |-> "none"]

\* what a failure was found in: a column key and the physical occurrence
Target(key, occ) == [key |-> key, occ |-> occ]
NoTarget == Target(<<>>, 0)

(***************************************************************************)
(* ColumnBackend.get_regex_columns                                         *)
(* columns is [multi, nlevels, labels]: a pd.Index (multi = FALSE,         *)
(* nlevels = 1) or a pd.MultiIndex.                                        *)
(***************************************************************************)
get_level_values(columns, i) ==
    [j \in DOMAIN columns.labels |-> columns.labels[j][i]]

\* pd.Index(values.astype(str).str.match(pat)).fillna(False), elementwise
LevelMatched(values, pat) ==
    [j \in DOMAIN values |-> FillNaFalse(StrMatch(AsTypeStr(values[j]), pat))]

TupleMatchesOr(name, columns) ==
    [j \in DOMAIN columns.labels |->
        \E i \in DOMAIN name.parts :
            LevelMatched(get_level_values(columns, i), name.parts[i].s)[j]]

\* the AND of the per-level match vectors (lines 122-127)
TupleMatches(name, columns) ==
    [j \in DOMAIN columns.labels |->
        \A i \in DOMAIN name.parts :
            LevelMatched(get_level_values(columns, i), name.parts[i].s)[j]]

\* columns[mask]: the labels selected by a boolean mask, in order
RECURSIVE Select(_, _)
Select(labels, mask) ==
    IF labels = <<>> THEN <<>>
    ELSE (IF mask[1] THEN <<labels[1]>> ELSE <<>>)
         \o Select(Tail(labels), Tail(mask))

InSeq(x, sq) == \E i \in DOMAIN sq : sq[i] = x

\* Index.drop_duplicates(): keeps the first occurrence of every label
RECURSIVE DropDuplicatesFrom(_, _)
DropDuplicatesFrom(seen, labels) ==
    IF labels = <<>> THEN seen
    ELSE DropDuplicatesFrom(
            IF InSeq(Head(labels), seen) THEN seen ELSE Append(seen, Head(labels)),
            Tail(labels))

KeepDuplicates(labels) == labels

drop_duplicates(labels) == DropDuplicatesFrom(<<>>, labels)

NoError == SchemaError(NoCtx, <<>>, "none", -1, NoTarget)

RegexResult(raised, keys, err) == [raised |-> raised, keys |-> keys, err |-> err]

NoRegexMatchError(sch) ==
    SchemaError(Ctx("Column", sch.name, "caller"),
                <<"Column regex name did not match any columns in the dataframe">>,
                "no_regex_column_match", -1, NoTarget)

\* the matching labels without the no-match failure of lines 143-154
GetRegexColumnsSilent(sch, columns) ==
    IF sch.name.t = "tuple"
    THEN IF Len(sch.name.parts) # columns.nlevels
         THEN RegexResult("IndexError", <<>>, NoError)
         ELSE RegexResult("none",
                  drop_duplicates(Select(columns.labels, TupleMatches(sch.name, columns))),
                  NoError)
    ELSE IF columns.multi
         THEN RegexResult("IndexError", <<>>, NoError)
         ELSE RegexResult("none",
                  drop_duplicates(
                      Select(columns.labels,
                             LevelMatched(get_level_values(columns, 1),
                                          sch.name.parts[1].s))),
                  NoError)

get_regex_columns(sch, columns) ==
    IF sch.name.t = "tuple"
    THEN IF Len(sch.name.parts) # columns.nlevels
         THEN RegexResult("IndexError", <<>>, NoError)
         ELSE LET column_keys_to_check ==
                      Select(columns.labels, TupleMatches(sch.name, columns))
              IN  IF Len(column_keys_to_check) = 0
                  THEN RegexResult("SchemaError", <<>>, NoRegexMatchError(sch))
                  ELSE RegexResult("none", drop_duplicates(column_keys_to_check), NoError)
    ELSE IF columns.multi
         THEN RegexResult("IndexError", <<>>, NoError)
         ELSE LET column_keys_to_check ==
                      Select(columns.labels,
                             LevelMatched(get_level_values(columns, 1),
                                          sch.name.parts[1].s))
              IN  IF Len(column_keys_to_check) = 0
                  THEN RegexResult("SchemaError", <<>>, NoRegexMatchError(sch))
                  ELSE RegexResult("none", drop_duplicates(column_keys_to_check), NoError)

(***************************************************************************)
(* Cells, fields and dtype coercion.                                       *)
(***************************************************************************)
IntCell(text) == [t |-> "int", s |-> text]
StrCell(text) == [t |-> "str", s |-> text]

NumericText == {"1", "-1"}

\* can one value be converted to dtype
Coercible(cell, dtype) ==
    IF dtype = "int" THEN cell.t = "int" \/ cell.s \in NumericText ELSE TRUE

\* the converted value
CoerceCell(cell, dtype) == [t |-> dtype, s |-> cell.s]

(***************************************************************************)
(* SchemaErrorHandler: collect_error raises the failure at once unless     *)
(* the handler is lazy, and then appends it to collected_errors.           *)
(* exc is the exception leaving the code that uses the handler ("none"     *)
(* while it runs on); `handed` records every collect_error call.           *)
(***************************************************************************)
ErrorRecord(reason_code, err) == [reason_code |-> reason_code, error |-> err]

SchemaErrorHandler(lazy) ==
    [lazy |-> lazy, collected_errors |-> <<>>, exc |-> "none",
     error |-> NoError, handed |-> <<>>]

collect_error(h, reason_code, err) ==
    IF ~h.lazy
    THEN [h EXCEPT !.handed = Append(@, ErrorRecord(reason_code, err)),
                   !.exc = "SchemaError", !.error = err]
    ELSE [h EXCEPT !.handed = Append(@, ErrorRecord(reason_code, err)),
                   !.collected_errors = Append(@, ErrorRecord(reason_code, err))]

(***************************************************************************)
(* ArraySchemaBackend.coerce_dtype: returns the data unchanged when the    *)
(* spec has no dtype or does not coerce, the converted data when every     *)
(* value converts, and raises a SchemaError otherwise.                     *)
(***************************************************************************)
array_coerce_dtype(field, sch, ctx, target) ==
    IF sch.dtype = "none" \/ ~sch.coerce
    THEN [ok |-> TRUE, value |-> field, err |-> NoError]
    ELSE IF \A r \in DOMAIN field : Coercible(field[r], sch.dtype)
    THEN [ok |-> TRUE,
          value |-> [r \in DOMAIN field |-> CoerceCell(field[r], sch.dtype)],
          err |-> NoError]
    ELSE [ok |-> FALSE, value |-> field,
          err |-> SchemaError(ctx, <<"Error while coercing to type", sch.dtype>>,
                              "coerce_dtype", -1, target)]

(***************************************************************************)
(* Checks.  A check is a predicate over a field; run_check returns when    *)
(* it passes, raises a SchemaError when values fail it, and lets the       *)
(* predicate's own fault (an Exception) through.                           *)
(*   gt0: every value > 0; comparing a str with 0 is a TypeError           *)
(*   eq1: every value == 1; never faults                                   *)
(***************************************************************************)
CheckOutcome(check, field) ==
    IF check = "gt0"
    THEN IF \E r \in DOMAIN field : field[r].t = "str" THEN "Exception"
         ELSE IF \E r \in DOMAIN field : field[r].s = "-1" THEN "SchemaError"
         ELSE "passed"
    ELSE IF \A r \in DOMAIN field : field[r] = IntCell("1") THEN "passed"
         ELSE "SchemaError"

\* the text of the fault a check raises
FaultOf(check) == "TypeError('>' not supported between instances of 'str' and 'int')"

run_check(field, ctx, check, check_index, target) ==
    [outcome |-> CheckOutcome(check, field),
     err |-> SchemaError(ctx, <<"failed element-wise validator", check>>,
                         check, check_index, target),
     fault |-> FaultOf(check)]

(***************************************************************************)
(* ColumnBackend.run_checks (lines 185-216).  check_index counts from 0.   *)
(***************************************************************************)
CheckExecutionError(ctx, check, check_index, target, err_str) ==
    SchemaError(ctx, <<"Error while executing check function", err_str>>,
                check, check_index, target)

\* one check with the handler of lines 197-215 left out
RunChecksStepUncaught(h, field, sch, ctx, target, i) ==
    LET r == run_check(field, ctx, sch.checks[i], i - 1, target)
    IN  IF r.outcome = "passed" THEN h
        ELSE IF r.outcome = "SchemaError"
        THEN collect_error(h, "dataframe_check", r.err)
        ELSE [h EXCEPT !.exc = "Exception"]

RunChecksStep(h, field, sch, ctx, target, i) ==
    LET r == run_check(field, ctx, sch.checks[i], i - 1, target)
    IN  IF r.outcome = "passed" THEN h
        ELSE IF r.outcome = "SchemaError"
        THEN collect_error(h, "dataframe_check", r.err)
        ELSE collect_error(h, "check_error",
                 CheckExecutionError(ctx, sch.checks[i], i - 1, target, r.fault))

RECURSIVE RunChecksFrom(_, _, _, _, _, _)
RunChecksFrom(h, field, sch, ctx, target, i) ==
    IF i > Len(sch.checks) \/ h.exc # "none" THEN h
    ELSE RunChecksFrom(RunChecksStep(h, field, sch, ctx, target, i),
                       field, sch, ctx, target, i + 1)

run_checks(h, field, sch, ctx, target) ==
    RunChecksFrom(h, field, sch, ctx, target, 1)

(***************************************************************************)
(* ArraySchemaBackend.validate, the field validator: coerces when the      *)
(* spec coerces, checks the dtype, runs the checks in order, and raises    *)
(* the collected failures as one SchemaErrors in lazy mode; without lazy   *)
(* the first failure leaves as a SchemaError.  The result is               *)
(* [exc, error, schema_errors, handed].                                    *)
(***************************************************************************)
ArrayAfterCoerce(h, field, sch, ctx, target) ==
    LET c == array_coerce_dtype(field, sch, ctx, target)
    IN  IF c.ok THEN [h |-> h, field |-> c.value]
        ELSE [h |-> collect_error(h, "dtype_coercion_error", c.err), field |-> field]

ArrayAfterDtype(h, field, sch, ctx, target) ==
    IF h.exc # "none" \/ sch.dtype = "none"
       \/ \A r \in DOMAIN field : field[r].t = sch.dtype
    THEN h
    ELSE collect_error(h, "wrong_dtype",
             SchemaError(ctx, <<"expected series to have type", sch.dtype>>,
                         "dtype", -1, target))

\* how the field validator ends: the first failure raised, the collected
\* failures raised as one SchemaErrors, or nothing raised
ArrayOutcome(h, lazy) ==
    IF h.exc # "none"
    THEN [exc |-> h.exc, error |-> h.error, schema_errors |-> <<>>,
          handed |-> h.handed]
    ELSE IF lazy /\ h.collected_errors # <<>>
    THEN [exc |-> "SchemaErrors", error |-> NoError,
          schema_errors |-> h.collected_errors, handed |-> h.handed]
    ELSE [exc |-> "none", error |-> NoError, schema_errors |-> <<>>,
          handed |-> h.handed]

\* the dtype check and the checks on the data the coercion step left
ArrayChecked(a, sch, ctx, target) ==
    run_checks(ArrayAfterDtype(a.h, a.field, sch, ctx, target),
               a.field, sch, ctx, target)

array_validate(field, sch, ctx, target, lazy) ==
    ArrayOutcome(
        ArrayChecked(
            ArrayAfterCoerce(SchemaErrorHandler(lazy), field, sch, ctx, target),
            sch, ctx, target),
        lazy)

(***************************************************************************)
(* Tables.  A table is [columns, data, index]: columns is [multi, nlevels, *)
(* labels], data[j] is the field under labels[j], index is [multi, names,  *)
(* levels].  check_obj[key] selects every physical column labelled key.    *)
(***************************************************************************)
RECURSIVE PositionsFrom(_, _, _)
PositionsFrom(labels, key, j) ==
    IF j > Len(labels) THEN <<>>
    ELSE (IF labels[j] = key THEN <<j>> ELSE <<>>) \o PositionsFrom(labels, key, j + 1)

\* the positions of the physical columns labelled key, in table order
Positions(tbl, key) == PositionsFrom(tbl.columns.labels, key, 1)

\* check_obj[key] as the sequence of its physical occurrences
GetItem(tbl, key) ==
    [o \in DOMAIN Positions(tbl, key) |-> tbl.data[Positions(tbl, key)[o]]]

\* check_obj[key] = value, value holding one field per physical occurrence
SetItem(tbl, key, value) ==
    [tbl EXCEPT !.data =
        [j \in DOMAIN tbl.data |->
            IF tbl.columns.labels[j] = key
            THEN value[CHOOSE o \in DOMAIN value : Positions(tbl, key)[o] = j]
            ELSE tbl.data[j]]]

\* the name a key binds with set_name: a scalar label or a tuple
NameOfLabel(key) == IF Len(key) = 1 THEN Scalar(key[1]) ELSE Tuple(key)

(***************************************************************************)
(* ColumnBackend.coerce_dtype (lines 159-183): a single occurrence is      *)
(* coerced as a field; several occurrences form a table, to which          *)
(* apply(..., axis="columns") hands one row at a time.                     *)
(***************************************************************************)
RowOf(sub, r) == [o \in DOMAIN sub |-> sub[o][r]]

column_coerce_dtype(sub, sch, ctx, key) ==
    IF Len(sub) = 1
    THEN LET c == array_coerce_dtype(sub[1], sch, ctx, Target(key, 0))
         IN  [ok |-> c.ok, value |-> <<c.value>>, err |-> c.err]
    ELSE LET rows == [r \in DOMAIN sub[1] |->
                         array_coerce_dtype(RowOf(sub, r), sch, ctx, Target(key, 0))]
             bad == {r \in DOMAIN rows : ~rows[r].ok}
         IN  IF bad = {}
             THEN [ok |-> TRUE,
                   value |-> [o \in DOMAIN sub |->
                                 [r \in DOMAIN rows |-> rows[r].value[o]]],
                   err |-> NoError]
             ELSE [ok |-> FALSE, value |-> sub,
                   err |-> rows[CHOOSE r \in bad : \A q \in bad : r <= q].err]

(***************************************************************************)
(* ColumnBackend.validate (lines 26-103).  The loop state is               *)
(* [check_obj, h, exc, error, log, handed]: the working table, the         *)
(* component's error handler, the exception leaving the loop, the history  *)
(* of coercions and field validations, and the collect_error calls of the  *)
(* field validators.                                                       *)
(***************************************************************************)
Event(op, key, occ, field) == [op |-> op, key |-> key, occ |-> occ, field |-> field]

RECURSIVE CollectAll(_, _)
CollectAll(h, schema_errors) ==
    IF schema_errors = <<>> \/ h.exc # "none" THEN h
    ELSE CollectAll(collect_error(h, Head(schema_errors).reason_code,
                                  Head(schema_errors).error),
                    Tail(schema_errors))

(***************************************************************************)
(* Spec objects.  A copy is a second object beside the caller's: the pair  *)
(* [caller, copy] holds both, and an assignment names the one it writes.   *)
(***************************************************************************)
\* copy(schema), line 58
copy(sch) == [caller |-> sch, copy |-> sch]

\* deepcopy(schema), lines 316 and 404
deepcopy(sch) == [caller |-> sch, copy |-> sch]

\* Column.set_name (api lines 128-135) on the object ref of the pair
set_name(objs, ref, name) == [objs EXCEPT ![ref].name = name]

\* line 58 with the name set on the caller's spec, not on its copy
BindNameInPlace(sch, key) == set_name(copy(sch), "caller", NameOfLabel(key))

\* copy(schema).set_name(column_name), line 58
BindName(sch, key) == set_name(copy(sch), "copy", NameOfLabel(key))

\* a validate result together with the caller's spec as the call leaves it
WithSchema(res, sch) ==
    [exc |-> res.exc, error |-> res.error, schema_errors |-> res.schema_errors,
     ret |-> res.ret, caller |-> res.caller, log |-> res.log,
     handed |-> res.handed, keys |-> res.keys, schema |-> sch]

\* lines 66-72 with the handler of the single failure left out
CollectRaisedSwallows(st, r, key, occ, field) ==
    LET h2 == IF r.exc = "SchemaErrors" THEN CollectAll(st.h, r.schema_errors)
              ELSE st.h
    IN  [st EXCEPT !.h = h2,
                   !.exc = IF r.exc = "Exception" THEN "Exception" ELSE h2.exc,
                   !.error = h2.error,
                   !.log = Append(@, Event("validate", key, occ, field)),
                   !.handed = @ \o r.handed]

\* lines 66-72: what the field validator raised goes to the component's handler
CollectRaised(st, r, key, occ, field) ==
    LET h2 == IF r.exc = "SchemaErrors" THEN CollectAll(st.h, r.schema_errors)
              ELSE IF r.exc = "SchemaError"
              THEN collect_error(st.h, r.error.reason_code, r.error)
              ELSE st.h
    IN  [st EXCEPT !.h = h2,
                   !.exc = IF r.exc = "Exception" THEN "Exception" ELSE h2.exc,
                   !.error = h2.error,
                   !.log = Append(@, Event("validate", key, occ, field)),
                   !.handed = @ \o r.handed]

\* validate_column (lines 53-72) on one physical occurrence
validate_column(st, sch, key, occ, lazy) ==
    [CollectRaised(st,
        array_validate(GetItem(st.check_obj, key)[occ],
                       BindName(st.schema, key).copy,
                       Ctx("Column", BindName(st.schema, key).copy.name, "copy"),
                       Target(key, occ), lazy),
        key, occ, GetItem(st.check_obj, key)[occ])
     EXCEPT !.schema = BindName(st.schema, key).caller]

RECURSIVE ValidateOccurrences(_, _, _, _, _)
ValidateOccurrences(st, sch, key, occ, lazy) ==
    IF st.exc # "none" \/ occ > Len(GetItem(st.check_obj, key)) THEN st
    ELSE ValidateOccurrences(validate_column(st, sch, key, occ, lazy),
                             sch, key, occ + 1, lazy)

CoerceColumnForced(st, sch, key) ==
    LET c == column_coerce_dtype(GetItem(st.check_obj, key), [sch EXCEPT !.coerce = TRUE],
                                 Ctx("Column", sch.name, "caller"), key)
    IN  IF c.ok
        THEN [st EXCEPT !.check_obj = SetItem(@, key, c.value),
                        !.log = Append(@, Event("coerce", key, 0, <<>>))]
        ELSE [st EXCEPT !.exc = "SchemaError", !.error = c.err,
                        !.log = Append(@, Event("coerce", key, 0, <<>>))]

\* lines 81-86 of the loop body
CoerceColumn(st, sch, key) ==
    IF ~sch.coerce THEN st
    ELSE LET c == column_coerce_dtype(GetItem(st.check_obj, key), sch,
                                      Ctx("Column", sch.name, "caller"), key)
         IN  IF c.ok
             THEN [st EXCEPT !.check_obj = SetItem(@, key, c.value),
                             !.log = Append(@, Event("coerce", key, 0, <<>>))]
             ELSE [st EXCEPT !.exc = "SchemaError", !.error = c.err,
                             !.log = Append(@, Event("coerce", key, 0, <<>>))]

\* one iteration of the loop over column_keys_to_check (lines 80-94)
ValidateKey(st, sch, key, lazy) ==
    IF Positions(st.check_obj, key) = <<>>
    THEN [st EXCEPT !.exc = "KeyError"]
    ELSE ValidateOccurrences(CoerceColumn(st, sch, key), sch, key, 1, lazy)

RECURSIVE ValidateKeys(_, _, _, _)
ValidateKeys(st, sch, keys, lazy) ==
    IF keys = <<>> \/ st.exc # "none" THEN st
    ELSE ValidateKeys(ValidateKey(st, sch, Head(keys), lazy), sch, Tail(keys), lazy)

NameIsNoneError(sch) ==
    SchemaError(Ctx("Column", sch.name, "caller"),
                <<"column name is set to None">>, "none", -1, NoTarget)

\* what a validate call leaves behind
Result(exc, error, schema_errors, ret, caller, log, handed, keys) ==
    [exc |-> exc, error |-> error, schema_errors |-> schema_errors, ret |-> ret,
     caller |-> caller, log |-> log, handed |-> handed, keys |-> keys]

NoTable ==
    [columns |-> [multi |-> FALSE, nlevels |-> 1, labels |-> <<>>], data |-> <<>>,
     index |-> [multi |-> FALSE, names |-> <<>>, levels |-> <<>>]]

\* lines 74-78
column_keys_to_check(sch, columns) ==
    IF sch.regex THEN get_regex_columns(sch, columns)
    ELSE RegexResult("none", <<sch.name.parts>>, NoError)

\* lines 96-103; the caller's table is the working table only when inplace
ColumnOutcome(st, tbl, keys, lazy, inplace) ==
    WithSchema(
        LET caller == IF inplace THEN st.check_obj ELSE tbl
        IN  IF st.exc # "none"
            THEN Result(st.exc, st.error, <<>>, NoTable, caller, st.log, st.handed,
                        keys)
            ELSE IF lazy /\ st.h.collected_errors # <<>>
            THEN Result("SchemaErrors", NoError, st.h.collected_errors, NoTable,
                        caller, st.log, st.handed, keys)
            ELSE Result("none", NoError, <<>>, st.check_obj, caller, st.log,
                        st.handed, keys),
        st.schema)

\* lines 74-103 once the columns to check are resolved
ValidateResolved(rgx, tbl, sch, lazy, inplace) ==
    IF rgx.raised # "none"
    THEN WithSchema(Result(rgx.raised, rgx.err, <<>>, NoTable, tbl, <<>>, <<>>, <<>>),
                    sch)
    ELSE ColumnOutcome(
             ValidateKeys([check_obj |-> tbl, h |-> SchemaErrorHandler(lazy),
                           exc |-> "none", error |-> NoError, log |-> <<>>,
                           handed |-> <<>>, schema |-> sch],
                          sch, rgx.keys, lazy),
             tbl, rgx.keys, lazy, inplace)

column_validate(tbl, sch, lazy, inplace) ==
    IF sch.name.t = "none"
    THEN WithSchema(Result("SchemaError", NameIsNoneError(sch), <<>>, NoTable, tbl,
                           <<>>, <<>>, <<>>),
                    sch)
    ELSE ValidateResolved(column_keys_to_check(sch, tbl.columns), tbl, sch, lazy,
                          inplace)

(***************************************************************************)
(* IndexBackend.validate (lines 222-274).  The spec is [name, coerce,      *)
(* dtype, checks].  check_obj is the caller's object: the method makes no  *)
(* copy of it, so assigning check_obj.index writes the caller's table.     *)
(***************************************************************************)
IndexName(sch) == IF sch.name.t = "none" THEN NameNone ELSE Scalar(sch.name)

MismatchIndexError(sch) ==
    SchemaError(Ctx("Index", IndexName(sch), "caller"),
                <<"Attempting to validate mismatch index">>, "none", -1, NoTarget)

\* lines 261-274: the field validator's outcome; check_obj is returned
IndexOutcome(r, check_obj, log) ==
    IF r.exc # "none"
    THEN Result(r.exc, r.error, r.schema_errors, NoTable, check_obj, log,
                r.handed, <<>>)
    ELSE Result("none", NoError, <<>>, check_obj, check_obj, log, r.handed, <<>>)

\* lines 248-274; c is what schema.coerce_dtype(check_obj.index) gave
IndexCoerced(c, tbl, sch, ctx, target, lazy) ==
    IF ~c.ok
    THEN Result("SchemaError", c.err, <<>>, NoTable, tbl,
                <<Event("coerce", target.key, 0, <<>>)>>, <<>>, <<>>)
    ELSE IndexOutcome(
             array_validate(c.value, sch, ctx, target, lazy),
             [tbl EXCEPT !.index.levels = <<c.value>>],
             (IF sch.coerce THEN <<Event("coerce", target.key, 0, <<>>)>> ELSE <<>>)
             \o <<Event("validate", target.key, 1, c.value)>>)

IndexValidateUntested(tbl, sch, lazy, inplace) ==
    WithSchema(
        IndexCoerced(
            array_coerce_dtype(tbl.index.levels[1], sch,
                               Ctx("Index", IndexName(sch), "caller"),
                               Target(<<tbl.index.names[1]>>, 1)),
            tbl, sch, Ctx("Index", IndexName(sch), "caller"),
            Target(<<tbl.index.names[1]>>, 1), lazy),
        sch)

\* no statement of the method assigns to the spec
index_validate(tbl, sch, lazy, inplace) ==
    WithSchema(
        IF tbl.index.multi
        THEN Result("SchemaError", MismatchIndexError(sch), <<>>, NoTable, tbl,
                    <<>>, <<>>, <<>>)
        ELSE IndexCoerced(
                 array_coerce_dtype(tbl.index.levels[1], sch,
                                    Ctx("Index", IndexName(sch), "caller"),
                                    Target(<<tbl.index.names[1]>>, 1)),
                 tbl, sch, Ctx("Index", IndexName(sch), "caller"),
                 Target(<<tbl.index.names[1]>>, 1), lazy),
        sch)

(***************************************************************************)
(* MultiIndex (api/pandas/components.py, lines 346-454).  The spec is      *)
(* [indexes, coerce_flag, strict, ordered, name, columns]: coerce_flag is  *)
(* the attribute _coerce, columns the ordered mapping from key to Column.  *)
(***************************************************************************)
Column(name, regex, coerce, dtype, checks) ==
    [name |-> name, regex |-> regex, coerce |-> coerce, dtype |-> dtype,
     checks |-> checks]

\* columns[key] = col on an ordered mapping held as a sequence of entries
DictSet(entries, key, col) ==
    IF \E k \in DOMAIN entries : entries[k].key = key
    THEN [k \in DOMAIN entries |->
             IF entries[k].key = key THEN [key |-> key, col |-> col] ELSE entries[k]]
    ELSE Append(entries, [key |-> key, col |-> col])

\* the key of level i (counted from 0): its name, or its position if unnamed
LevelKey(name, i) == IF name.t = "none" THEN IntKey(i) ELSE name

RECURSIVE InitColumns(_, _, _)
InitColumns(indexes, i, columns) ==
    IF i > Len(indexes) THEN columns
    ELSE InitColumns(indexes, i + 1,
            DictSet(columns, LevelKey(indexes[i].name, i - 1),
                    Column(Scalar(LevelKey(indexes[i].name, i - 1)), FALSE, FALSE,
                               indexes[i].dtype, indexes[i].checks)))

MultiIndexInitUnchecked(indexes, coerce, strict, ordered) ==
    [raised |-> "none",
     schema |-> [indexes |-> indexes, coerce_flag |-> coerce, strict |-> strict,
                 ordered |-> ordered, name |-> NameNone,
                 columns |-> InitColumns(indexes, 1, <<>>)]]

\* MultiIndex.__init__ (lines 410-439): raised is "SchemaInitError" or "none"
MultiIndexInit(indexes, coerce, strict, ordered) ==
    IF ~ordered /\ \E i \in DOMAIN indexes : indexes[i].name.t = "none"
    THEN [raised |-> "SchemaInitError",
          schema |-> [indexes |-> <<>>, coerce_flag |-> FALSE, strict |-> FALSE,
                      ordered |-> FALSE, name |-> NameNone, columns |-> <<>>]]
    ELSE [raised |-> "none",
          schema |-> [indexes |-> indexes, coerce_flag |-> coerce, strict |-> strict,
                      ordered |-> ordered, name |-> NameNone,
                      columns |-> InitColumns(indexes, 1, <<>>)]]

\* the names property (lines 441-444)
names(sch) == [i \in DOMAIN sch.indexes |-> sch.indexes[i].name]

MultiIndexCoerceOwnFlag(sch) == sch.coerce_flag

\* the coerce property (lines 446-449)
MultiIndexCoerce(sch) ==
    sch.coerce_flag \/ \E i \in DOMAIN sch.indexes : sch.indexes[i].coerce

(***************************************************************************)
(* MultiIndexBackend.coerce_dtype (lines 280-358).  index is [multi,       *)
(* names, levels].  coerced_multi_index maps a level position to its       *)
(* array; it is held as one entry [has, array] per level of the index.     *)
(***************************************************************************)
\* the levels a declared index is located at (lines 304-311), counted from 1
index_levels(index, sch, i) ==
    IF \A k \in DOMAIN sch.indexes : sch.indexes[k].name.t = "none"
    THEN <<i>>
    ELSE PositionsFrom(index.names, sch.indexes[i].name, 1)

\* index_copy = deepcopy(index); index_copy.coerce = True (lines 316-317)
ForceCoerce(objs) == [objs EXCEPT !.copy.coerce = TRUE]

\* lines 313-323 for one located level
CoerceLevel(cs, index, sch, i, index_level) ==
    IF index_level > Len(index.levels)
    THEN [cs EXCEPT !.exc = "IndexError"]
    ELSE
    LET index_array == index.levels[index_level]
        idx == sch.indexes[i]
        index_copy == ForceCoerce(deepcopy(cs.schema.indexes[i]))
        c == IF idx.coerce \/ sch.coerce_flag
             THEN array_coerce_dtype(index_array, index_copy.copy,
                                     Ctx("Index", IndexName(idx), "copy"),
                                     Target(<<index.names[index_level]>>, index_level))
             ELSE [ok |-> TRUE, value |-> index_array, err |-> NoError]
    IN  [cs EXCEPT
            !.h = IF c.ok THEN @ ELSE collect_error(@, "dtype_coercion_error", c.err),
            !.coerced_multi_index[index_level] = [has |-> TRUE, array |-> c.value],
            !.attempted = Append(@, index_level),
            !.schema.indexes[i] =
                IF idx.coerce \/ sch.coerce_flag THEN index_copy.caller ELSE @]

RECURSIVE CoerceLevels(_, _, _, _, _)
CoerceLevels(cs, index, sch, i, lvls) ==
    IF lvls = <<>> \/ cs.exc # "none" THEN cs
    ELSE CoerceLevels(CoerceLevel(cs, index, sch, i, Head(lvls)),
                      index, sch, i, Tail(lvls))

RECURSIVE CoerceIndexes(_, _, _, _)
CoerceIndexes(cs, index, sch, i) ==
    IF i > Len(sch.indexes) \/ cs.exc # "none" THEN cs
    ELSE CoerceIndexes(CoerceLevels(cs, index, sch, i, index_levels(index, sch, i)),
                       index, sch, i + 1)

\* the arrays of coerced_multi_index sorted by level position (lines 353-355)
RECURSIVE SortedArrays(_, _)
SortedArrays(coerced, j) ==
    IF j > Len(coerced) THEN <<>>
    ELSE (IF coerced[j].has THEN <<coerced[j].array>> ELSE <<>>)
         \o SortedArrays(coerced, j + 1)

\* lines 325-358: the failures raised together, or the index rebuilt
CoercedIndex(cs, index) ==
    IF cs.exc # "none"
    THEN [exc |-> cs.exc, schema_errors |-> <<>>, index |-> index,
          attempted |-> cs.attempted, schema |-> cs.schema]
    ELSE IF cs.h.collected_errors # <<>>
    THEN [exc |-> "SchemaErrors", schema_errors |-> cs.h.collected_errors,
          index |-> index, attempted |-> cs.attempted, schema |-> cs.schema]
    ELSE IF Len(SortedArrays(cs.coerced_multi_index, 1)) # Len(index.names)
    THEN [exc |-> "ValueError", schema_errors |-> <<>>, index |-> index,
          attempted |-> cs.attempted, schema |-> cs.schema]
    ELSE [exc |-> "none", schema_errors |-> <<>>,
          index |-> [index EXCEPT !.levels = SortedArrays(cs.coerced_multi_index, 1)],
          attempted |-> cs.attempted, schema |-> cs.schema]

\* the result is [exc, schema_errors, index, attempted, schema]: schema is the
\* caller's spec as the method leaves it
multiindex_coerce_dtype(index, sch) ==
    IF ~MultiIndexCoerce(sch)
    THEN [exc |-> "none", schema_errors |-> <<>>, index |-> index,
          attempted |-> <<>>, schema |-> sch]
    ELSE CoercedIndex(
             CoerceIndexes(
                 [h |-> SchemaErrorHandler(TRUE), exc |-> "none", attempted |-> <<>>,
                  coerced_multi_index |->
                      [j \in DOMAIN index.levels |-> [has |-> FALSE, array |-> <<>>]],
                  schema |-> sch],
                 index, sch, 1),
             index)

(***************************************************************************)
(* DataFrameSchemaBackend.validate, the table validator, on the synthetic  *)
(* table: presence of every declared column, strictness, ordering, then    *)
(* every declared column present in the table validated as a Column in     *)
(* declaration order.  Table-level failures carry the table schema as      *)
(* context, column failures the column spec.                               *)
(***************************************************************************)
HasLabel(df, key) == InSeq(<<key>>, df.columns.labels)
HasKey(sch, key) == \E k \in DOMAIN sch.columns : sch.columns[k].key = key

TableError(sch, check, key) ==
    SchemaError(Ctx("MultiIndex", sch.name, "copy"), <<check>>, check, -1,
                Target(<<key>>, 0))

RECURSIVE CheckPresence(_, _, _, _)
CheckPresence(h, df, sch, k) ==
    IF k > Len(sch.columns) \/ h.exc # "none" THEN h
    ELSE CheckPresence(
            IF HasLabel(df, sch.columns[k].key) THEN h
            ELSE collect_error(h, "column_not_in_dataframe",
                     TableError(sch, "column_in_dataframe", sch.columns[k].key)),
            df, sch, k + 1)

RECURSIVE CheckStrict(_, _, _, _)
CheckStrict(h, df, sch, j) ==
    IF j > Len(df.columns.labels) \/ h.exc # "none" \/ ~sch.strict THEN h
    ELSE CheckStrict(
            IF HasKey(sch, df.columns.labels[j][1]) THEN h
            ELSE collect_error(h, "column_not_in_schema",
                     TableError(sch, "column_in_schema", df.columns.labels[j][1])),
            df, sch, j + 1)

\* the declared keys present in the table, in declaration order
RECURSIVE PresentKeys(_, _, _)
PresentKeys(df, sch, k) ==
    IF k > Len(sch.columns) THEN <<>>
    ELSE (IF HasLabel(df, sch.columns[k].key) THEN <<sch.columns[k].key>> ELSE <<>>)
         \o PresentKeys(df, sch, k + 1)

\* the declared keys in the order the table first holds them
RECURSIVE SeenKeys(_, _, _)
SeenKeys(df, sch, j) ==
    IF j > Len(df.columns.labels) THEN <<>>
    ELSE (IF HasKey(sch, df.columns.labels[j][1])
          THEN <<df.columns.labels[j][1]>> ELSE <<>>)
         \o SeenKeys(df, sch, j + 1)

CheckOrdered(h, df, sch) ==
    IF h.exc # "none" \/ ~sch.ordered
       \/ PresentKeys(df, sch, 1) = drop_duplicates(SeenKeys(df, sch, 1))
    THEN h
    ELSE collect_error(h, "column_not_ordered",
                       TableError(sch, "column_ordered", NoneKey))

\* what a column component raised goes to the table validator's handler
CollectComponent(ts, r) ==
    LET h2 == IF r.exc = "SchemaErrors" THEN CollectAll(ts.h, r.schema_errors)
              ELSE IF r.exc = "SchemaError"
              THEN collect_error(ts.h, r.error.reason_code, r.error)
              ELSE ts.h
    IN  [h |-> IF r.exc \in {"none", "SchemaError", "SchemaErrors"} THEN h2
               ELSE [h2 EXCEPT !.exc = r.exc],
         log |-> ts.log \o r.log, handed |-> ts.handed \o r.handed]

ComponentStep(ts, df, col, lazy) ==
    CollectComponent(ts, column_validate(df, col, lazy, TRUE))

RECURSIVE RunComponents(_, _, _, _, _)
RunComponents(ts, df, sch, k, lazy) ==
    IF k > Len(sch.columns) \/ ts.h.exc # "none" THEN ts
    ELSE RunComponents(
            IF HasLabel(df, sch.columns[k].key)
            THEN ComponentStep(ts, df, sch.columns[k].col, lazy) ELSE ts,
            df, sch, k + 1, lazy)

TableOutcome(ts, lazy) ==
    IF ts.h.exc # "none"
    THEN [exc |-> ts.h.exc, error |-> ts.h.error, schema_errors |-> <<>>,
          log |-> ts.log, handed |-> ts.handed]
    ELSE IF lazy /\ ts.h.collected_errors # <<>>
    THEN [exc |-> "SchemaErrors", error |-> NoError,
          schema_errors |-> ts.h.collected_errors,
          log |-> ts.log, handed |-> ts.handed]
    ELSE [exc |-> "none", error |-> NoError, schema_errors |-> <<>>,
          log |-> ts.log, handed |-> ts.handed]

table_validate(df, sch, lazy) ==
    TableOutcome(
        RunComponents(
            [h |-> CheckOrdered(
                       CheckStrict(
                           CheckPresence(SchemaErrorHandler(lazy), df, sch, 1),
                           df, sch, 1),
                       df, sch),
             log |-> <<>>, handed |-> <<>>],
            df, sch, 1, lazy),
        lazy)

(***************************************************************************)
(* MultiIndexBackend.validate (lines 360-486).  check_obj is the caller's  *)
(* object: assigning check_obj.index writes the caller's table.            *)
(***************************************************************************)
\* lines 404-407: the working copy with coercion disabled
DisableCoerce(sch) ==
    [sch EXCEPT !.coerce_flag = FALSE,
                !.indexes = [i \in DOMAIN sch.indexes |->
                                [sch.indexes[i] EXCEPT !.coerce = FALSE]]]

\* i if name is None else name, for every level of the index (counted from 0)
LevelKeys(index) ==
    [j \in DOMAIN index.names |-> LevelKey(index.names[j], j - 1)]

Min(a, b) == IF a <= b THEN a ELSE b

RECURSIVE ZipColumns(_, _, _, _)
ZipColumns(index_names, old, k, columns) ==
    IF k > Min(Len(index_names), Len(old)) THEN columns
    ELSE ZipColumns(index_names, old, k + 1,
            DictSet(columns, index_names[k],
                    [old[k].col EXCEPT !.name = Scalar(index_names[k])]))

\* lines 409-426: the column keys remapped when level names collide
RemapColumns(schema_copy, index) ==
    IF ~(\A j \in DOMAIN index.names : index.names[j].t = "none")
       /\ Cardinality({index.names[j] : j \in DOMAIN index.names}) # Len(index.levels)
    THEN [schema_copy EXCEPT
             !.columns = ZipColumns(drop_duplicates(LevelKeys(index)),
                                    schema_copy.columns, 1, <<>>)]
    ELSE schema_copy

\* lines 428-448
to_dataframe(multiindex) ==
    [columns |-> [multi |-> FALSE, nlevels |-> 1,
                  labels |-> [j \in DOMAIN multiindex.names |->
                                 <<LevelKeys(multiindex)[j]>>]],
     data |-> multiindex.levels,
     index |-> multiindex]

\* lines 461-483: one failure of the table validator re-raised for the caller
Rewrite(sch, e) ==
    [e EXCEPT !.error.schema = Ctx("MultiIndex", sch.name, "caller"),
              !.error.column = e.error.schema.name]

CoerceEvents(index, attempted) ==
    [a \in DOMAIN attempted |-> Event("coerce", <<index.names[attempted[a]]>>,
                                       attempted[a], <<>>)]

\* lines 450-486: the table validator's outcome; only a SchemaErrors is
\* caught and rewritten, anything else it raised leaves as it is
MultiIndexOutcome(r, sch, check_obj, clog) ==
    IF r.exc = "SchemaErrors"
    THEN Result("SchemaErrors", NoError,
                [k \in DOMAIN r.schema_errors |-> Rewrite(sch, r.schema_errors[k])],
                NoTable, check_obj, clog \o r.log, r.handed, <<>>)
    ELSE IF r.exc # "none"
    THEN Result(r.exc, r.error, <<>>, NoTable, check_obj, clog \o r.log,
                r.handed, <<>>)
    ELSE Result("none", NoError, <<>>, check_obj, check_obj, clog \o r.log,
                r.handed, <<>>)

\* lines 404-426 on the deep copy: coercion disabled, column keys remapped
WorkingCopy(objs, index) ==
    [objs EXCEPT !.copy = RemapColumns(DisableCoerce(@), index)]

\* lines 404-486 once the index is coerced; objs.copy is schema_copy
MultiIndexValidated(objs, c, tbl, sch, lazy) ==
    WithSchema(
        MultiIndexOutcome(
            table_validate(to_dataframe(c.index), objs.copy, lazy),
            sch, [tbl EXCEPT !.index = c.index],
            CoerceEvents(tbl.index, c.attempted)),
        objs.caller)

\* lines 390-486; c is what self.coerce_dtype(check_obj.index) gave
MultiIndexCoerced(c, tbl, sch, lazy) ==
    IF c.exc = "SchemaErrors"
    THEN IF lazy
         THEN WithSchema(
                  Result("SchemaErrors", NoError, c.schema_errors, NoTable, tbl,
                         CoerceEvents(tbl.index, c.attempted), <<>>, <<>>),
                  c.schema)
         ELSE WithSchema(
                  Result("SchemaError", c.schema_errors[1].error, <<>>, NoTable, tbl,
                         CoerceEvents(tbl.index, c.attempted), <<>>, <<>>),
                  c.schema)
    ELSE IF c.exc # "none"
    THEN WithSchema(
             Result(c.exc, NoError, <<>>, NoTable, tbl,
                    CoerceEvents(tbl.index, c.attempted), <<>>, <<>>),
             c.schema)
    ELSE MultiIndexValidated(WorkingCopy(deepcopy(c.schema), c.index), c, tbl, sch,
                             lazy)

multiindex_validate(tbl, sch, lazy, inplace) ==
    MultiIndexCoerced(multiindex_coerce_dtype(tbl.index, sch), tbl, sch, lazy)

(***************************************************************************)
(* Inputs.                                                                 *)
(***************************************************************************)
Chars(str) ==
    CASE str = "col_1" -> <<"c", "o", "l", "_", "1">>
      [] str = "col_2" -> <<"c", "o", "l", "_", "2">>
      [] str = "other" -> <<"o", "t", "h", "e", "r">>
      [] str = "^col_[0-9]+$" -> <<"^", "c", "o", "l", "_", "\\d", "+", "$">>
      [] str = "^[0-9]+$" -> <<"^", "\\d", "+", "$">>
      [] str = "o" -> <<"o">>
      [] str = "zz" -> <<"z", "z">>
      [] OTHER -> <<str>>

S(str) == StrKey(Chars(str))

Cells == {IntCell("1"), StrCell("-1"), StrCell("x")}

\* fields of NRows rows: valid values followed by rows holding one kind of cell
FieldPool ==
    {[r \in 1..NRows |-> IF r <= k THEN IntCell("1") ELSE c] :
        c \in Cells, k \in 0..(NRows - 1)}

SeqsUpTo(set, n) == UNION {[1..m -> set] : m \in 0..n}

RangeIndex == [multi |-> FALSE, names |-> <<NoneKey>>, levels |-> <<[r \in 1..NRows |-> IntCell("1")]>>]

\* single-level tables over the labels col_1 and col_2
FlatTables ==
    {[columns |-> [multi |-> FALSE, nlevels |-> 1,
                   labels |-> [j \in DOMAIN d |-> <<l[j]>>]],
      data |-> d, index |-> RangeIndex] :
        <<l, d>> \in UNION {[1..m -> {S("col_1"), S("col_2")}] \X [1..m -> FieldPool] :
                               m \in 1..MaxCols}}

\* tables with two-level column labels
NestedTables ==
    {[columns |-> [multi |-> TRUE, nlevels |-> 2,
                   labels |-> <<<<S("a"), x>>, <<S("b"), S("x")>>>>],
      data |-> <<f, f>>, index |-> RangeIndex] :
        x \in {S("x"), S("y")}, f \in FieldPool}

CheckLists == {<<>>, <<"gt0", "eq1">>}

ColumnNames ==
    {NameNone, Scalar(S("col_1")), Tuple(<<S("a"), S("x")>>)}

ColumnPatterns ==
    {Scalar(S("^col_[0-9]+$")), Scalar(S("zz")), Tuple(<<S("a"), S("x")>>),
     Tuple(<<S("zz"), S("x")>>), Tuple(<<S("a")>>)}

\* the declared dtype: int, or none declared
Dtypes == {"int", "none"}

\* coerce is drawn only where a dtype is declared: without one it does nothing
ColumnSchemas ==
    {s \in {Column(n, FALSE, c, d, k) :
                n \in ColumnNames, c \in BOOLEAN, d \in Dtypes, k \in CheckLists}
            \cup {Column(n, TRUE, c, d, k) :
                n \in ColumnPatterns \cup {NameNone}, c \in BOOLEAN, d \in Dtypes,
                k \in CheckLists} :
        s.dtype = "none" => ~s.coerce}

Index(name, coerce, dtype, checks) ==
    [name |-> name, coerce |-> coerce, dtype |-> dtype, checks |-> checks]

IndexSchemas ==
    {Index(n, c, "int", k) :
        n \in {S("a"), NoneKey}, c \in BOOLEAN, k \in CheckLists}

OneColumn(index) ==
    [columns |-> [multi |-> FALSE, nlevels |-> 1, labels |-> <<<<S("col_1")>>>>],
     data |-> <<[r \in 1..NRows |-> IntCell("1")]>>, index |-> index]

LevelNames == {S("a"), S("b"), NoneKey}

FlatIndexes ==
    {[multi |-> FALSE, names |-> <<n>>, levels |-> <<f>>] :
        n \in {S("a"), NoneKey}, f \in FieldPool}

MultiIndexes ==
    {[multi |-> TRUE, names |-> <<n1, n2>>, levels |-> <<f1, f2>>] :
        n1 \in LevelNames, n2 \in LevelNames, f1 \in FieldPool, f2 \in FieldPool}

IndexTables == {OneColumn(i) : i \in FlatIndexes \cup {CHOOSE m \in MultiIndexes : TRUE}}

LevelSchemas == {Index(n, c, "int", <<"eq1">>) : n \in LevelNames, c \in BOOLEAN}

\* the MultiIndex specs that can be constructed
MultiIndexSchemas ==
    {MultiIndexInit(ix, c, st, o).schema :
        <<ix, c, st, o>> \in
            {q \in (UNION {[1..m -> LevelSchemas] : m \in 1..2})
                    \X BOOLEAN \X BOOLEAN \X BOOLEAN :
                MultiIndexInit(q[1], q[2], q[3], q[4]).raised = "none"}}

MultiIndexTables == {OneColumn(i) : i \in MultiIndexes}

UniformMultiIndexTables ==
    {t \in MultiIndexTables : t.index.levels[1] = t.index.levels[2]}

(***************************************************************************)
(* The state machine: a caller holds a spec and a table and calls          *)
(* validate on it, any number of times, with any lazy and inplace.         *)
(***************************************************************************)
NoResult ==
    WithSchema(Result("none", NoError, <<>>, NoTable, NoTable, <<>>, <<>>, <<>>),
               Column(NameNone, TRUE, FALSE, "int", <<>>))

\* no MultiIndex has been constructed
NoSchema ==
    [indexes |-> <<>>, coerce_flag |-> FALSE, strict |-> FALSE, ordered |-> FALSE,
     name |-> NameNone, columns |-> <<>>]

NoConstruction ==
    [indexes |-> <<>>, coerce |-> FALSE, strict |-> FALSE, ordered |-> FALSE,
     called |-> FALSE, raised |-> "none", read |-> "unread", working |-> NoSchema]

NoCall == [kind |-> "none", lazy |-> FALSE, inplace |-> FALSE, pre |-> NoTable,
           res |-> NoResult]

NoRegexCall ==
    [sch |-> Column(NameNone, TRUE, FALSE, "int", <<>>),
     columns |-> [multi |-> FALSE, nlevels |-> 1, labels |-> <<>>],
     called |-> FALSE, out |-> RegexResult("none", <<>>, NoError)]

\* a component is built and a table is at hand; tables is the pool a caller
\* of MultiIndex draws from
CallerInit(tables) ==
    /\ \/ comp = "column" /\ schema \in ColumnSchemas
          /\ table \in FlatTables \cup NestedTables
       \/ comp = "index" /\ schema \in IndexSchemas /\ table \in IndexTables
       \/ comp = "multiindex" /\ schema \in MultiIndexSchemas
          /\ table \in tables
    /\ last = NoCall
    /\ rx = NoRegexCall
    /\ ctor = NoConstruction

\* the callers of the three components; the levels of a MultiIndex caller's
\* index hold the same values
Init == CallerInit(UniformMultiIndexTables)

Call(kind, lazy, inplace, res) ==
    /\ last' = [kind |-> kind, lazy |-> lazy, inplace |-> inplace, pre |-> table,
                res |-> res]
    /\ table' = res.caller
    /\ schema' = res.schema
    /\ UNCHANGED <<comp, rx, ctor>>

\* Column.validate (api lines 137-173)
ColumnValidate ==
    /\ comp = "column"
    /\ \E lazy \in BOOLEAN, inplace \in BOOLEAN :
          Call("column", lazy, inplace, column_validate(table, schema, lazy, inplace))

\* Index.validate (api lines 258-294)
IndexValidate ==
    /\ comp = "index"
    /\ \E lazy \in BOOLEAN, inplace \in BOOLEAN :
          Call("index", lazy, inplace, index_validate(table, schema, lazy, inplace))

\* MultiIndex.validate (api lines 456-492)
MultiIndexValidate ==
    /\ comp = "multiindex"
    /\ \E lazy \in BOOLEAN, inplace \in BOOLEAN :
          Call("multiindex", lazy, inplace,
               multiindex_validate(table, schema, lazy, inplace))

Next == ColumnValidate \/ IndexValidate \/ MultiIndexValidate

\* a caller of any of the three components
Spec == Init /\ [][Next]_vars

\* a caller of one component
ColumnInit == Init /\ comp = "column"
ColumnNext == ColumnValidate
ColumnSpec == ColumnInit /\ [][ColumnNext]_vars

IndexInit == Init /\ comp = "index"
IndexNext == IndexValidate
IndexSpec == IndexInit /\ [][IndexNext]_vars

MultiIndexCallerInit == CallerInit(MultiIndexTables) /\ comp = "multiindex"
MultiIndexNext == MultiIndexValidate
MultiIndexSpec == MultiIndexCallerInit /\ [][MultiIndexNext]_vars

(***************************************************************************)
(* Column.get_regex_columns (api lines 175-183) called on its own.         *)
(***************************************************************************)
RegexLabels1 == {S("col_1"), S("col_2"), S("other"), IntKey(7)}
RegexLabels2 == {<<a, b>> : a \in {S("a"), S("b")}, b \in {S("x"), IntKey(7)}}

RegexColumns ==
    {[multi |-> FALSE, nlevels |-> 1, labels |-> [j \in DOMAIN l |-> <<l[j]>>]] :
        l \in SeqsUpTo(RegexLabels1, MaxRegexCols)}
    \cup {[multi |-> TRUE, nlevels |-> 2, labels |-> l] :
        l \in SeqsUpTo(RegexLabels2, MaxRegexCols)}

RegexNames ==
    {Scalar(S(p)) : p \in {"^col_[0-9]+$", "^[0-9]+$", "o", "zz"}}
    \cup {Tuple(<<S(p), S(q)>>) : p \in {"a", "."}, q \in {"x", "^[0-9]+$"}}
    \cup {Tuple(<<S("a")>>)}

RegexInit ==
    /\ comp = "regex"
    /\ schema = NoRegexCall.sch
    /\ table = NoTable
    /\ last = NoCall
    /\ ctor = NoConstruction
    /\ \E n \in RegexNames, c \in RegexColumns :
          rx = [NoRegexCall EXCEPT !.sch.name = n, !.columns = c]

GetRegexColumns ==
    /\ comp = "regex"
    /\ ~rx.called
    /\ rx' = [rx EXCEPT !.called = TRUE, !.out = get_regex_columns(rx.sch, rx.columns)]
    /\ UNCHANGED <<comp, schema, table, last, ctor>>

RegexNext == GetRegexColumns

RegexSpec == RegexInit /\ [][RegexNext]_vars

(***************************************************************************)
(* A caller that constructs a MultiIndex (api lines 355-439), assigns its  *)
(* coerce attribute and its levels' coerce flags, reads the coerce         *)
(* property, and takes the working copy the backend validates with.        *)
(***************************************************************************)
ConstructInit ==
    /\ comp = "construct"
    /\ schema = NoSchema
    /\ table = NoTable
    /\ last = NoCall
    /\ rx = NoRegexCall
    /\ \E ix \in UNION {[1..m -> LevelSchemas] : m \in 1..MaxInitLevels},
          c \in BOOLEAN, o \in BOOLEAN :
          ctor = [NoConstruction EXCEPT !.indexes = ix, !.coerce = c, !.ordered = o]

\* MultiIndex(indexes, coerce, strict, ordered): the object exists only if
\* __init__ returns
MultiIndexConstruct ==
    /\ comp = "construct"
    /\ ~ctor.called
    /\ ctor' = [ctor EXCEPT
                  !.called = TRUE,
                  !.raised = MultiIndexInit(ctor.indexes, ctor.coerce, ctor.strict,
                                            ctor.ordered).raised]
    /\ IF ctor'.raised = "none"
       THEN /\ comp' = "constructed"
            /\ schema' = MultiIndexInit(ctor.indexes, ctor.coerce, ctor.strict,
                                        ctor.ordered).schema
       ELSE UNCHANGED <<comp, schema>>
    /\ UNCHANGED <<table, last, rx>>

\* the coerce setter (api lines 451-454)
CoerceSetter(sch, value) == [sch EXCEPT !.coerce_flag = value]

\* schema.coerce = value
SetCoerce ==
    /\ comp = "constructed"
    /\ \E value \in BOOLEAN : schema' = CoerceSetter(schema, value)
    /\ ctor' = [ctor EXCEPT !.read = "unread", !.working = NoSchema]
    /\ UNCHANGED <<comp, table, last, rx>>

\* index.coerce = value on one level of schema.indexes
SetLevelCoerce ==
    /\ comp = "constructed"
    /\ \E i \in DOMAIN schema.indexes, value \in BOOLEAN :
          schema' = [schema EXCEPT !.indexes[i].coerce = value]
    /\ ctor' = [ctor EXCEPT !.read = "unread", !.working = NoSchema]
    /\ UNCHANGED <<comp, table, last, rx>>

\* a read of schema.coerce
ReadCoerce ==
    /\ comp = "constructed"
    /\ ctor' = [ctor EXCEPT !.read = IF MultiIndexCoerce(schema) THEN "true" ELSE "false"]
    /\ UNCHANGED <<comp, schema, table, last, rx>>

\* schema_copy of MultiIndexBackend.validate (backend lines 404-407)
TakeWorkingCopy ==
    /\ comp = "constructed"
    /\ ctor' = [ctor EXCEPT !.working = DisableCoerce(deepcopy(schema).copy)]
    /\ UNCHANGED <<comp, schema, table, last, rx>>

ConstructNext ==
    MultiIndexConstruct \/ SetCoerce \/ SetLevelCoerce \/ ReadCoerce \/ TakeWorkingCopy

ConstructSpec == ConstructInit /\ [][ConstructNext]_vars

(***************************************************************************)
(* The working copy MultiIndexBackend.validate makes for an index whose    *)
(* level names collide (backend lines 404-426), for specs whose levels     *)
(* carry different checks.                                                 *)
(***************************************************************************)
\* the level names of the index collide (lines 411-414)
Collides(index) ==
    /\ ~(\A j \in DOMAIN index.names : index.names[j].t = "none")
    /\ Cardinality({index.names[j] : j \in DOMAIN index.names}) # Len(index.levels)

CollidingIndexes ==
    {ix \in {[multi |-> TRUE, names |-> n,
              levels |-> [j \in DOMAIN n |-> [r \in 1..NRows |-> IntCell("1")]]] :
                n \in UNION {[1..m -> LevelNames] : m \in 2..MaxIndexLevels}} :
        Collides(ix)}

CheckedLevels ==
    {Index(n, FALSE, "int", k) : n \in LevelNames, k \in {<<"eq1">>, <<"gt0">>}}

CheckedSchemas ==
    {MultiIndexInit(ix, FALSE, FALSE, o).schema :
        <<ix, o>> \in
            {q \in (UNION {[1..m -> CheckedLevels] : m \in 1..MaxInitLevels}) \X BOOLEAN :
                MultiIndexInit(q[1], FALSE, FALSE, q[2]).raised = "none"}}

FlattenInit ==
    /\ comp = "flatten"
    /\ schema \in CheckedSchemas
    /\ table \in {OneColumn(ix) : ix \in CollidingIndexes}
    /\ last = NoCall
    /\ rx = NoRegexCall
    /\ ctor = NoConstruction

\* schema_copy after lines 404-426
Flatten ==
    /\ comp = "flatten"
    /\ ctor.working = NoSchema
    /\ ctor' = [ctor EXCEPT !.working = WorkingCopy(deepcopy(schema), table.index).copy]
    /\ UNCHANGED <<comp, schema, table, last, rx>>

FlattenNext == Flatten

FlattenSpec == FlattenInit /\ [][FlattenNext]_vars

(***************************************************************************)
(* Properties.                                                             *)
(***************************************************************************)
FirstPosition(labels, l) ==
    CHOOSE j \in DOMAIN labels : labels[j] = l /\ \A i \in 1..(j - 1) : labels[i] # l

\* a single-level label whose string form the pattern matches
StringFormMatches(name, label) == ReMatch(name.parts[1].s, AsStr(label[1]))

\* a composite label every level of which its sub-pattern matches
EveryLevelMatches(name, label) ==
    \A i \in DOMAIN name.parts : ReMatch(name.parts[i].s, AsStr(label[i]))

RegexOnFlatLabels == rx.called /\ rx.sch.name.t = "scalar" /\ ~rx.columns.multi

RegexOnTupleLabels ==
    rx.called /\ rx.sch.name.t = "tuple"
    /\ Len(rx.sch.name.parts) = rx.columns.nlevels

\* C5: get_regex_columns with a string pattern over single-level labels
\* resolves exactly the labels whose string form matches the pattern, each
\* distinct label once, in order of first occurrence in the table; a label
\* that is not a string is matched by its string form and raises nothing,
\* and the call raises (no match) exactly when no label matches.
C5_RegexResolvesDistinctMatches ==
    RegexOnFlatLabels =>
        LET labels == rx.columns.labels
            keys == rx.out.keys
        IN  /\ rx.out.raised \in {"none", "SchemaError"}
            /\ rx.out.raised = "SchemaError" <=>
                   ~\E j \in DOMAIN labels : StringFormMatches(rx.sch.name, labels[j])
            /\ rx.out.raised = "none" =>
                /\ \A k \in DOMAIN keys :
                      InSeq(keys[k], labels) /\ StringFormMatches(rx.sch.name, keys[k])
                /\ \A j \in DOMAIN labels :
                      StringFormMatches(rx.sch.name, labels[j]) => InSeq(labels[j], keys)
                /\ \A k1 \in DOMAIN keys, k2 \in DOMAIN keys :
                      k1 < k2 =>
                        /\ keys[k1] # keys[k2]
                        /\ FirstPosition(labels, keys[k1]) < FirstPosition(labels, keys[k2])

\* a table that holds a matching label twice, a second matching label and a
\* label that does not match
C5_Witness ==
    /\ RegexOnFlatLabels
    /\ rx.out.raised = "none"
    /\ Len(rx.out.keys) = 2
    /\ Len(rx.columns.labels) = 3
    /\ \E j \in DOMAIN rx.columns.labels :
          ~StringFormMatches(rx.sch.name, rx.columns.labels[j])

\* the spec's scenario B and a table holding one matching label twice
C5_Scenario ==
    RegexOnFlatLabels /\ rx.sch.name = Scalar(S("^col_[0-9]+$")) =>
        /\ rx.columns.labels = <<<<S("col_1")>>, <<S("col_2")>>, <<S("other")>>>>
              => rx.out.keys = <<<<S("col_1")>>, <<S("col_2")>>>>
        /\ rx.columns.labels = <<<<S("col_2")>>, <<S("col_1")>>, <<S("col_2")>>>>
              => rx.out.keys = <<<<S("col_2")>>, <<S("col_1")>>>>

\* C6: get_regex_columns with a tuple pattern as long as the labels have
\* levels resolves a label if and only if every level's sub-pattern matches
\* that level's value of the label.
C6_TuplePatternMatchesEveryLevel ==
    RegexOnTupleLabels =>
        LET labels == rx.columns.labels
        IN  /\ rx.out.raised \in {"none", "SchemaError"}
            /\ rx.out.raised = "SchemaError" <=>
                   ~\E j \in DOMAIN labels : EveryLevelMatches(rx.sch.name, labels[j])
            /\ rx.out.raised = "none" =>
                   \A j \in DOMAIN labels :
                       InSeq(labels[j], rx.out.keys)
                           <=> EveryLevelMatches(rx.sch.name, labels[j])
            /\ \A k \in DOMAIN rx.out.keys : InSeq(rx.out.keys[k], labels)

\* one label resolved, another left out although one of its levels matches
C6_Witness ==
    /\ RegexOnTupleLabels
    /\ rx.columns.nlevels = 2
    /\ rx.out.raised = "none"
    /\ \E j \in DOMAIN rx.columns.labels :
          /\ ~InSeq(rx.columns.labels[j], rx.out.keys)
          /\ \E i \in 1..2 :
                ReMatch(rx.sch.name.parts[i].s, AsStr(rx.columns.labels[j][i]))

(***************************************************************************)
(* Column.validate: what a call is expected to find, stated from the       *)
(* table the call was given.                                               *)
(***************************************************************************)
ColumnCalled == last.kind = "column"

\* the call resolved at least one column and the table holds every one
ResolvedPresent ==
    /\ last.res.keys # <<>>
    /\ \A k \in DOMAIN last.res.keys : Positions(last.pre, last.res.keys[k]) # <<>>

Coerces == schema.coerce /\ schema.dtype # "none"

Occurrences(key) == Len(Positions(last.pre, key))

OccurrenceField(key, occ) == last.pre.data[Positions(last.pre, key)[occ]]

KeyCoercible(key) ==
    \A occ \in 1..Occurrences(key) :
        \A r \in DOMAIN OccurrenceField(key, occ) :
            Coercible(OccurrenceField(key, occ)[r], schema.dtype)

\* the values occurrence occ of key holds when it is validated
ValidatedField(key, occ) ==
    IF Coerces /\ KeyCoercible(key)
    THEN [r \in DOMAIN OccurrenceField(key, occ) |->
             CoerceCell(OccurrenceField(key, occ)[r], schema.dtype)]
    ELSE OccurrenceField(key, occ)

Failure(check, check_index, key, occ) ==
    [check |-> check, check_index |-> check_index, key |-> key, occ |-> occ]

Describe(err) == Failure(err.check, err.check_index, err.target.key, err.target.occ)

RECURSIVE ChecksExpected(_, _, _, _)
ChecksExpected(field, key, occ, i) ==
    IF i > Len(schema.checks) THEN <<>>
    ELSE (IF CheckOutcome(schema.checks[i], field) = "passed" THEN <<>>
          ELSE <<Failure(schema.checks[i], i - 1, key, occ)>>)
         \o ChecksExpected(field, key, occ, i + 1)

FieldExpected(field, key, occ) ==
    (IF schema.dtype # "none" /\ \E r \in DOMAIN field : field[r].t # schema.dtype
     THEN <<Failure("dtype", -1, key, occ)>> ELSE <<>>)
    \o ChecksExpected(field, key, occ, 1)

RECURSIVE OccurrencesExpected(_, _)
OccurrencesExpected(key, occ) ==
    IF occ > Occurrences(key) THEN <<>>
    ELSE FieldExpected(ValidatedField(key, occ), key, occ)
         \o OccurrencesExpected(key, occ + 1)

\* the failures of one resolved column in the order they are met
KeyExpected(key) ==
    IF Coerces /\ ~KeyCoercible(key) THEN <<Failure("coerce_dtype", -1, key, 0)>>
    ELSE OccurrencesExpected(key, 1)

RECURSIVE KeysExpected(_)
KeysExpected(keys) ==
    IF keys = <<>> THEN <<>>
    ELSE KeyExpected(Head(keys)) \o KeysExpected(Tail(keys))

ValidateEvents == SelectSeq(last.res.log, LAMBDA e : e.op = "validate")

Validated(key, occ) ==
    \E n \in DOMAIN last.res.log :
        /\ last.res.log[n].op = "validate"
        /\ last.res.log[n].key = key
        /\ last.res.log[n].occ = occ

\* C1: Column.validate in lazy mode with a name set and at least one
\* resolved column validates every physical occurrence of every resolved
\* column and ends either by returning the table, when no failure was
\* found, or by raising one SchemaErrors holding every failure found in
\* the order met; no single failure is raised on the way.
C1_LazyCollectsEveryFailure ==
    ColumnCalled /\ last.lazy /\ schema.name.t # "none" /\ ResolvedPresent =>
        /\ last.res.exc \in {"none", "SchemaErrors"}
        /\ \A k \in DOMAIN last.res.keys :
              \A occ \in 1..Occurrences(last.res.keys[k]) :
                  Validated(last.res.keys[k], occ)
        /\ last.res.exc = "none" <=> last.res.handed = <<>>
        /\ last.res.exc = "SchemaErrors" => last.res.schema_errors = last.res.handed

\* C2: Column.validate without lazy raises a single SchemaError, the first
\* failure in column-then-check order, and neither coerces nor validates a
\* column that comes after the failing one; with no failure to find it
\* returns the table.
C2_FailFastRaisesFirstFailure ==
    ColumnCalled /\ ~last.lazy /\ schema.name.t # "none" /\ ResolvedPresent =>
        LET expected == KeysExpected(last.res.keys)
        IN  IF expected = <<>>
            THEN last.res.exc = "none"
            ELSE /\ last.res.exc = "SchemaError"
                 /\ last.res.schema_errors = <<>>
                 /\ Describe(last.res.error) = Head(expected)
                 /\ \A n \in DOMAIN last.res.log :
                       FirstPosition(last.res.keys, last.res.log[n].key)
                           <= FirstPosition(last.res.keys, Head(expected).key)

\* two resolved columns that both fail, the first one raised
C2_Witness ==
    /\ ColumnCalled /\ ~last.lazy /\ ResolvedPresent
    /\ Len(last.res.keys) = 2
    /\ KeyExpected(last.res.keys[1]) # <<>>
    /\ KeyExpected(last.res.keys[2]) # <<>>
    /\ last.res.exc = "SchemaError"
    /\ last.res.error.target.key = last.res.keys[1]

\* C3: Column.validate with the name unset fails at once, lazy or not,
\* before anything is resolved, coerced or checked, with an error of a
\* class other than the classes of data-validation failures, and collects
\* nothing.
C3_UnsetNameIsConfigurationError ==
    ColumnCalled /\ schema.name.t = "none" =>
        /\ last.res.exc \notin {"none", "SchemaError", "SchemaErrors"}
        /\ last.res.keys = <<>>
        /\ last.res.log = <<>>
        /\ last.res.handed = <<>>
        /\ last.res.schema_errors = <<>>

\* a pattern matches a label when it has one sub-pattern per level of the
\* label and each matches its level
PatternMatches(name, label) ==
    Len(name.parts) = Len(label) /\ EveryLevelMatches(name, label)

NoLabelMatches ==
    \A j \in DOMAIN last.pre.columns.labels :
        ~PatternMatches(schema.name, last.pre.columns.labels[j])

RaisedNoRegexMatch ==
    /\ last.res.exc = "SchemaError"
    /\ last.res.error.check = "no_regex_column_match"
    /\ last.res.log = <<>>
    /\ last.res.handed = <<>>

\* the pattern has the shape of the table's labels: a string over
\* single-level labels, a tuple with one sub-pattern per level
PatternFitsLabels ==
    IF schema.name.t = "tuple"
    THEN Len(schema.name.parts) = last.pre.columns.nlevels
    ELSE ~last.pre.columns.multi

\* C4 as stated: a regex Column over a table none of whose labels matches
\* raises the no-column-matched failure, lazy or not, and coerces and
\* checks nothing.
C4_NoMatchAlwaysRaisesNoMatch ==
    ColumnCalled /\ schema.regex /\ schema.name.t # "none" /\ NoLabelMatches =>
        RaisedNoRegexMatch

\* C4, amended: a regex Column whose pattern has the shape of the table's
\* labels, over a table none of whose labels matches, raises the
\* no-column-matched failure, lazy or not, and coerces and checks nothing;
\* a pattern of another shape raises an IndexError instead.
C4_FittingPatternNoMatchRaises ==
    ColumnCalled /\ schema.regex /\ schema.name.t # "none" /\ NoLabelMatches =>
        IF PatternFitsLabels THEN RaisedNoRegexMatch
        ELSE last.res.exc = "IndexError" /\ last.res.log = <<>>

C4_Witness ==
    /\ ColumnCalled /\ schema.regex /\ schema.name.t # "none"
    /\ last.lazy /\ schema.coerce /\ schema.checks # <<>>
    /\ NoLabelMatches /\ PatternFitsLabels
    /\ Len(last.pre.columns.labels) = 2
    /\ RaisedNoRegexMatch

Raised(f) ==
    \E n \in DOMAIN last.res.schema_errors :
        Describe(last.res.schema_errors[n].error) = f

\* C7: a non-regex Column whose name labels k >= 2 columns of the table is
\* validated k times in lazy mode, once per occurrence and on that
\* occurrence's own values, and the failures of every occurrence are in
\* the SchemaErrors raised.
C7_EachOccurrenceValidated ==
    ColumnCalled /\ last.lazy /\ ~schema.regex /\ schema.name.t # "none"
        /\ ResolvedPresent /\ Occurrences(schema.name.parts) >= 2 =>
        LET key == schema.name.parts
        IN  /\ Len(ValidateEvents) = Occurrences(key)
            /\ \A occ \in 1..Occurrences(key) :
                  /\ occ \in DOMAIN ValidateEvents
                  /\ ValidateEvents[occ].occ = occ
                  /\ ValidateEvents[occ].field = ValidatedField(key, occ)
                  /\ LET expected == FieldExpected(ValidatedField(key, occ), key, occ)
                     IN  \A n \in DOMAIN expected : Raised(expected[n])

\* the values the field validator was given for a target
FieldOf(target) ==
    LET n == CHOOSE n \in DOMAIN last.res.log :
                 /\ last.res.log[n].op = "validate"
                 /\ last.res.log[n].key = target.key
                 /\ last.res.log[n].occ = target.occ
    IN  last.res.log[n].field

Handed(reason_code, e, i) ==
    \E n \in DOMAIN last.res.handed :
        /\ last.res.handed[n].reason_code = reason_code
        /\ last.res.handed[n].error.check = schema.checks[i]
        /\ last.res.handed[n].error.check_index = i - 1
        /\ last.res.handed[n].error.target = Target(e.key, e.occ)

\* C8: a check that faults while it runs is handed to the handler as a
\* failure of kind check_error carrying the check, its position and the
\* text of the fault, a check that reports a failed validation as kind
\* dataframe_check; the raw fault leaves Column.validate in neither mode,
\* and in lazy mode the checks after it still run and the failure is in
\* the SchemaErrors raised.
C8_CheckFaultBecomesCheckError ==
    ColumnCalled =>
        /\ last.res.exc # "Exception"
        /\ \A n \in DOMAIN last.res.handed :
              LET h == last.res.handed[n]
              IN  h.error.check \in {"gt0", "eq1"} =>
                    LET outcome == CheckOutcome(h.error.check, FieldOf(h.error.target))
                    IN  /\ h.reason_code = "check_error" <=> outcome = "Exception"
                        /\ h.reason_code = "dataframe_check" <=> outcome = "SchemaError"
                        /\ h.reason_code = "check_error" =>
                              /\ h.error.message =
                                    <<"Error while executing check function",
                                      FaultOf(h.error.check)>>
                              /\ schema.checks[h.error.check_index + 1] = h.error.check
        /\ last.lazy =>
              \A m \in DOMAIN last.res.log :
                  LET e == last.res.log[m]
                  IN  e.op = "validate" =>
                        \A i \in DOMAIN schema.checks :
                            LET outcome == CheckOutcome(schema.checks[i], e.field)
                            IN  /\ outcome = "Exception" =>
                                      /\ Handed("check_error", e, i)
                                      /\ last.res.exc = "SchemaErrors"
                                      /\ Raised(Failure(schema.checks[i], i - 1, e.key, e.occ))
                                /\ outcome = "SchemaError" =>
                                      Handed("dataframe_check", e, i)

\* lazy: the first check faults, the second still runs and fails
C8_Witness ==
    /\ ColumnCalled /\ last.lazy /\ last.res.exc = "SchemaErrors"
    /\ \E m \in DOMAIN last.res.log :
          /\ last.res.log[m].op = "validate"
          /\ Len(schema.checks) = 2
          /\ CheckOutcome(schema.checks[1], last.res.log[m].field) = "Exception"
          /\ Handed("check_error", last.res.log[m], 1)
          /\ Handed("dataframe_check", last.res.log[m], 2)

\* without lazy: the faulting check leaves as a single SchemaError
C8_FailFastWitness ==
    /\ ColumnCalled /\ ~last.lazy /\ last.res.exc = "SchemaError"
    /\ last.res.error.message =
          <<"Error while executing check function", FaultOf("gt0")>>

(***************************************************************************)
(* MultiIndex.validate and the caller's table.                             *)
(***************************************************************************)
MultiIndexCalled == last.kind = "multiindex"

\* the call got past coercion, so a failure comes from the synthetic table
ReachedTableValidation ==
    multiindex_coerce_dtype(last.pre.index, schema).exc = "none"

MultiIndexContext == Ctx("MultiIndex", schema.name, "caller")

\* C9: every failure MultiIndex.validate surfaces from validating the
\* synthetic table of index levels carries the caller's MultiIndex spec as
\* its context, in lazy mode and without it, and never the synthetic
\* column spec or the working copy.
C9_FailuresCarryMultiIndexContext ==
    MultiIndexCalled /\ ReachedTableValidation =>
        /\ last.res.exc = "SchemaErrors" =>
              \A n \in DOMAIN last.res.schema_errors :
                  last.res.schema_errors[n].error.schema = MultiIndexContext
        /\ last.res.exc = "SchemaError" =>
              last.res.error.schema = MultiIndexContext

\* C10: with inplace false, Column.validate, Index.validate and
\* MultiIndex.validate leave the table the caller passed as it was, and
\* what coercion produced is in the returned table only.
C10_NotInplaceLeavesCallerTable ==
    last.kind # "none" /\ ~last.inplace => table = last.pre

(***************************************************************************)
(* The caller's spec across validate calls.                                *)
(***************************************************************************)
\* C11: no validate call of Column, Index or MultiIndex, returning or
\* raising, lazy or not, changes the spec the caller supplied: its name,
\* its coerce flag, the coerce flag of every level and the keys and names
\* of its column entries stay what they were before the first call; names
\* are bound and coercion is disabled on copies only.
C11_CallerSpecUnchanged == [][schema' = schema]_vars

\* a regex Column bound to the names of two resolved columns in turn
C11_Witness ==
    /\ ColumnCalled /\ schema.regex /\ ResolvedPresent
    /\ Len(last.res.keys) = 2
    /\ \A k \in 1..2 :
          /\ Validated(last.res.keys[k], 1)
          /\ NameOfLabel(last.res.keys[k]) # schema.name
    /\ last.res.schema = schema

\* a coercing MultiIndex whose working copy was remapped and had every
\* coerce flag cleared
C11_MultiIndexWitness ==
    /\ MultiIndexCalled /\ ReachedTableValidation
    /\ \E i \in DOMAIN schema.indexes : schema.indexes[i].coerce
    /\ WorkingCopy(deepcopy(schema), table.index).copy.columns # schema.columns
    /\ last.res.schema = schema

\* a construction with ordered = false and a level whose name is unset
UnorderedWithUnnamedLevel ==
    /\ ctor.called /\ ~ctor.ordered
    /\ \E i \in DOMAIN ctor.indexes : ctor.indexes[i].name.t = "none"

\* C12: constructing a MultiIndex with ordered = false and at least one level
\* whose name is unset raises SchemaInitError, at whatever position the
\* unnamed level stands, and no MultiIndex object comes to exist: every
\* constructed MultiIndex is ordered or has all its levels named.
C12_UnorderedUnnamedLevelRaises ==
    /\ UnorderedWithUnnamedLevel =>
          ctor.raised = "SchemaInitError" /\ comp = "construct" /\ schema = NoSchema
    /\ comp = "constructed" =>
          schema.ordered \/ \A i \in DOMAIN schema.indexes : schema.indexes[i].name.t # "none"
    /\ comp = "multiindex" =>
          schema.ordered \/ \A i \in DOMAIN schema.indexes : schema.indexes[i].name.t # "none"

\* the unnamed level stands last, after a named one
C12_Witness ==
    /\ UnorderedWithUnnamedLevel
    /\ Len(ctor.indexes) = 2
    /\ ctor.indexes[1].name.t # "none" /\ ctor.indexes[2].name.t = "none"
    /\ ctor.raised = "SchemaInitError"

\* the unnamed level stands first
C12_FirstLevelWitness ==
    /\ UnorderedWithUnnamedLevel
    /\ Len(ctor.indexes) = 2
    /\ ctor.indexes[1].name.t = "none" /\ ctor.indexes[2].name.t # "none"
    /\ ctor.raised = "SchemaInitError"

\* some level of the spec has its coerce flag set
SomeLevelCoerces(sch) == \E i \in DOMAIN sch.indexes : sch.indexes[i].coerce

\* C20: after any sequence of assignments to a MultiIndex's coerce attribute
\* and to its levels' coerce flags, a read of the coerce property yields true
\* exactly when the MultiIndex's own flag is set or some level's flag is set;
\* the working copy of validate has its own flag and every level flag cleared,
\* and so reads false.
C20_CoerceReadsOwnOrAnyLevel ==
    /\ ctor.read # "unread" =>
          (ctor.read = "true" <=> (schema.coerce_flag \/ SomeLevelCoerces(schema)))
    /\ ctor.working # NoSchema =>
          /\ ~ctor.working.coerce_flag
          /\ ~SomeLevelCoerces(ctor.working)
          /\ ~MultiIndexCoerce(ctor.working)

\* coerce = False was assigned to a MultiIndex built with coerce = True, a
\* level still coerces, and the property reads true
C20_Witness ==
    /\ comp = "constructed" /\ ctor.coerce /\ ~schema.coerce_flag
    /\ SomeLevelCoerces(schema)
    /\ ctor.read = "true"

\* the working copy of a spec whose levels coerce
C20_WorkingCopyWitness ==
    /\ comp = "constructed" /\ ~schema.coerce_flag /\ SomeLevelCoerces(schema)
    /\ ctor.working # NoSchema

\* a call on a Column with regex and coerce off returned
ReturnedWithoutCoercion ==
    ColumnCalled /\ ~schema.regex /\ ~schema.coerce /\ last.res.exc = "none"

\* the outcome res of validating tbl: it returns tbl and no failure was
\* raised or handed to the error handler
ReturnsUnchanged(res, tbl) ==
    /\ res.exc = "none"
    /\ res.ret = tbl
    /\ res.schema_errors = <<>>
    /\ res.handed = <<>>

\* C14: when validate(T, C) returns for a Column C with regex and coerce off,
\* the returned table equals T, and validating the returned table again, in
\* either mode, returns an identical table and collects no failure.
C14_ValidateIsIdentityAndIdempotent ==
    ReturnedWithoutCoercion =>
        /\ last.res.ret = last.pre
        /\ \A lazy \in BOOLEAN, inplace \in BOOLEAN :
              ReturnsUnchanged(column_validate(last.res.ret, schema, lazy, inplace),
                               last.res.ret)

\* a returning call that checked a dtype and ran checks on a table of two columns
C14_Witness ==
    /\ ReturnedWithoutCoercion
    /\ schema.dtype = "int" /\ schema.checks # <<>>
    /\ Len(last.pre.data) = 2
    /\ Validated(last.res.keys[1], 1)

\* Index.validate was called on a table whose row index is multi-level
IndexCalledOnMultiIndex == last.kind = "index" /\ last.pre.index.multi

\* C15: Index.validate on a table whose row index is multi-level raises the
\* mismatch-index SchemaError at once, lazy or not, before any coercion and
\* before the field validator is called, and the table's index is as it was.
C15_MismatchIndexRaisesAtOnce ==
    IndexCalledOnMultiIndex =>
        /\ last.res.exc = "SchemaError"
        /\ last.res.error = MismatchIndexError(schema)
        /\ last.res.schema_errors = <<>>
        /\ last.res.log = <<>>
        /\ last.res.handed = <<>>
        /\ table = last.pre

\* a lazy call of a coercing Index on a multi-level index
C15_Witness ==
    IndexCalledOnMultiIndex /\ last.lazy /\ schema.coerce /\ schema.checks # <<>>

\* a fail-fast call on a multi-level index
C15_FailFastWitness ==
    IndexCalledOnMultiIndex /\ ~last.lazy /\ schema.coerce

\* the levels of the index that declared level i of the spec is located at
LocatedAt(i) == {l \in DOMAIN last.pre.index.levels :
                    InSeq(l, index_levels(last.pre.index, schema, i))}

\* the levels of the index that a declared level makes coerce
MustCoerce ==
    {l \in DOMAIN last.pre.index.levels :
        \E i \in DOMAIN schema.indexes :
            l \in LocatedAt(i) /\ (schema.indexes[i].coerce \/ schema.coerce_flag)}

\* those of them holding a value that does not convert
FailingLevels ==
    {l \in DOMAIN last.pre.index.levels :
        \E i \in DOMAIN schema.indexes :
            /\ l \in LocatedAt(i) /\ (schema.indexes[i].coerce \/ schema.coerce_flag)
            /\ \E r \in DOMAIN last.pre.index.levels[l] :
                  ~Coercible(last.pre.index.levels[l][r], schema.indexes[i].dtype)}

CoerceAttempted(l) ==
    \E n \in DOMAIN last.res.log :
        last.res.log[n].op = "coerce" /\ last.res.log[n].occ = l

\* no column of the synthetic table was validated and no failure of the
\* table validator was handed on
TableValidationNotStarted ==
    /\ \A n \in DOMAIN last.res.log : last.res.log[n].op = "coerce"
    /\ last.res.handed = <<>>

\* C16: when MultiIndex per-level coercion fails on at least one level,
\* coercion was attempted on every level that must coerce, all the coercion
\* failures are raised together as one SchemaErrors, one per failing level
\* and nothing else, and validation of the synthetic table is never started.
C16_CoercionFailuresRaisedTogether ==
    (MultiIndexCalled /\ FailingLevels # {}) =>
        /\ \A l \in MustCoerce : CoerceAttempted(l)
        /\ last.res.exc = "SchemaErrors"
        /\ {last.res.schema_errors[n].error.target.occ :
                n \in DOMAIN last.res.schema_errors} = FailingLevels
        /\ \A n \in DOMAIN last.res.schema_errors :
              last.res.schema_errors[n].reason_code = "dtype_coercion_error"
        /\ TableValidationNotStarted

\* coercion of the resolved column key was attempted
KeyCoerceAttempted(key) ==
    \E n \in DOMAIN last.res.log :
        last.res.log[n].op = "coerce" /\ last.res.log[n].key = key

\* a fail-fast call of a coercing Column one of whose resolved columns holds
\* a value that does not convert
ColumnCoercionFails ==
    /\ ColumnCalled /\ ~last.lazy /\ Coerces /\ ResolvedPresent
    /\ \E k \in DOMAIN last.res.keys : ~KeyCoercible(last.res.keys[k])

\* C17: in fail-fast mode, with coerce set and a coercion failing, coercion
\* is attempted on every resolved target (every resolved column of a Column,
\* every level of a MultiIndex that must coerce) before the first coercion
\* failure is raised.
C17_FailFastCoercesEveryTarget ==
    /\ ColumnCoercionFails =>
          \A k \in DOMAIN last.res.keys : KeyCoerceAttempted(last.res.keys[k])
    /\ (MultiIndexCalled /\ ~last.lazy /\ FailingLevels # {}) =>
          \A l \in MustCoerce : CoerceAttempted(l)

\* a coercing MultiIndex was validated and no level failed to coerce
LevelCoercionSucceeds ==
    MultiIndexCalled /\ MultiIndexCoerce(schema) /\ FailingLevels = {}

\* the converted values of level l of the input index
CoercedLevel(l) ==
    [r \in DOMAIN last.pre.index.levels[l] |->
        CoerceCell(last.pre.index.levels[l][r], "int")]

\* level l of the result holds the values of level l of the input: converted
\* if every declared level located there coerces, as they were if none does
HoldsLevel(index, l) ==
    /\ index.levels[l] \in {CoercedLevel(l), last.pre.index.levels[l]}
    /\ l \notin MustCoerce => index.levels[l] = last.pre.index.levels[l]
    /\ (\A i \in DOMAIN schema.indexes :
            l \in LocatedAt(i) => (schema.indexes[i].coerce \/ schema.coerce_flag))
         /\ l \in MustCoerce => index.levels[l] = CoercedLevel(l)

\* C18: when no level of the index fails to coerce under a coercing
\* MultiIndex, coerce_dtype returns an index with as many levels as the
\* input, the same level names in the same positions, and level i holding
\* the coerced values of level i of the input, whatever levels and level
\* names the input index has.
C18_CoercedIndexKeepsEveryLevel ==
    LevelCoercionSucceeds =>
        /\ multiindex_coerce_dtype(last.pre.index, schema).exc = "none"
        /\ table.index.names = last.pre.index.names
        /\ Len(table.index.levels) = Len(last.pre.index.levels)
        /\ \A l \in DOMAIN last.pre.index.levels : HoldsLevel(table.index, l)

\* the working copy was taken for an index whose level names collide
Flattened == comp = "flatten" /\ ctor.working # NoSchema /\ Collides(table.index)

\* the declared level i is named, no other declared level has its name, and
\* the index carries a level of that name
DeclaredAndPresent(i) ==
    /\ schema.indexes[i].name.t # "none"
    /\ \A k \in DOMAIN schema.indexes : schema.indexes[k].name = schema.indexes[i].name => k = i
    /\ InSeq(schema.indexes[i].name, table.index.names)

\* entry k of the remapped mapping has the key and the constraints of declared level i
BoundTo(k, i) ==
    /\ ctor.working.columns[k].key = schema.indexes[i].name
    /\ ctor.working.columns[k].col.dtype = schema.indexes[i].dtype
    /\ ctor.working.columns[k].col.checks = schema.indexes[i].checks

\* C19: when the level names of the index collide, the keys of the remapped
\* column mapping are distinct labels that all occur as columns of the
\* synthetic table, each entry's bound name equals its key, and the
\* constraints of each named declared level stay bound to the key equal to
\* that level's declared name, in whatever order the index carries the levels.
C19_RemapKeepsConstraintsOnOwnName ==
    Flattened =>
        /\ \A j, k \in DOMAIN ctor.working.columns :
              ctor.working.columns[j].key = ctor.working.columns[k].key => j = k
        /\ \A k \in DOMAIN ctor.working.columns :
              /\ HasLabel(to_dataframe(table.index), ctor.working.columns[k].key)
              /\ ctor.working.columns[k].col.name = Scalar(ctor.working.columns[k].key)
        /\ \A i \in DOMAIN schema.indexes :
              DeclaredAndPresent(i) => \E k \in DOMAIN ctor.working.columns : BoundTo(k, i)

\* the failures an outcome reports, each identified by the level it was
\* found in and the check that failed
FailuresOf(res) ==
    IF res.exc = "SchemaErrors"
    THEN {[level |-> res.schema_errors[n].error.target.key,
           check |-> res.schema_errors[n].error.check] :
             n \in DOMAIN res.schema_errors}
    ELSE IF res.exc = "SchemaError"
    THEN {[level |-> res.error.target.key, check |-> res.error.check]}
    ELSE {}

\* a table whose single-level index is level l of the index
LevelTable(index, l) ==
    OneColumn([multi |-> FALSE, names |-> <<index.names[l]>>,
               levels |-> <<index.levels[l]>>])

\* the failures of validating each declared level on its own with Index
FailuresByLevel ==
    UNION {FailuresOf(index_validate(LevelTable(last.pre.index, l), schema.indexes[l],
                                     TRUE, FALSE)) :
              l \in DOMAIN schema.indexes}

\* a lazy call of a MultiIndex whose level names are set and distinct, on an
\* index that carries exactly the declared levels
DistinctLevelsCalled ==
    /\ MultiIndexCalled /\ last.lazy
    /\ \A i \in DOMAIN schema.indexes : schema.indexes[i].name.t # "none"
    /\ \A i, k \in DOMAIN schema.indexes :
          schema.indexes[i].name = schema.indexes[k].name => i = k
    /\ names(schema) = last.pre.index.names

\* C13: for a MultiIndex with distinct level names, MultiIndex.validate
\* reports exactly the failures, identified by level, that validating each
\* level on its own with Index reports.
C13_SameFailuresAsLevelByLevel ==
    DistinctLevelsCalled => FailuresOf(last.res) = FailuresByLevel

====
